---- MODULE Spec2Model ----
(***************************************************************************)
(* Model of server.py: the two SDP negotiation proxies (realtime_proxy,    *)
(* transcription_proxy) and the function-calling WebSocket endpoint with   *)
(* its process-wide conversation state.                                    *)
(***************************************************************************)
EXTENDS Integers, Sequences, FiniteSets, TLC

(* ---------------------------------------------------------------------- *)
(* Bounds                                                                 *)
(* ---------------------------------------------------------------------- *)
MaxReq == 2            \* negotiation requests in flight
MaxConn == 2           \* WebSocket connections
MaxClients == 1        \* connections used when every kind of frame is sent
MaxFrames == 2         \* text frames received, when every kind of frame is sent
MaxCalls == 3          \* text frames received, when the question frames are sent

Reqs == 1..MaxReq
Conns == 1..MaxConn
Clients == Conns \cap 1..MaxClients

None == "None"         \* Python's None, and "not present"

(* ---------------------------------------------------------------------- *)
(* Negotiation relay: values                                              *)
(* ---------------------------------------------------------------------- *)
Flows == {"realtime", "transcription"}

\* request bodies: two decodable offers and one byte string that is not UTF-8
BadBytes == "bad-bytes"
Offers == {"offerA", "offerB"}
Bodies == Offers \cup {BadBytes}

StandingKey == "OPENAI_API_KEY"
EphemeralKeys == {"ek1", "ek2"}

\* An HTTP body or message text: a shape and the value it carries.
Text(shape, value) == [shape |-> shape, value |-> value]

\* bodies the credential-mint endpoint may answer with
MintBodies ==
    {Text("not_json", "garbage"), Text("no_secret", "{}"),
     Text("secret_null", "null"), Text("value", "")}
    \cup {Text("value", k) : k \in EphemeralKeys}
AnswerBodies == {Text("sdp", "answerA"), Text("sdp", "answerB")}

OkStatuses == {200}
Transport == {"ConnectError", "ReadTimeout"}

\* what an upstream call can come back with: a transport exception (network
\* failure, the 10 s timeout) or an HTTP response
Raised(e) == [kind |-> "raise", exc |-> e, status |-> 0, body |-> Text("none", None)]
Response(s, b) == [kind |-> "response", exc |-> None, status |-> s, body |-> b]

ErrorResponses == {Response(401, Text("text", "errA")), Response(503, Text("text", "errB"))}

MintOutcomes ==
    {Raised(e) : e \in Transport}
    \cup {Response(s, b) : s \in OkStatuses, b \in MintBodies}
    \cup ErrorResponses
SdpOutcomes ==
    {Raised(e) : e \in Transport}
    \cup {Response(s, b) : s \in OkStatuses, b \in AnswerBodies}
    \cup ErrorResponses

MintUrl(flow) ==
    IF flow = "realtime" THEN "/v1/realtime/sessions"
    ELSE "/v1/realtime/transcription_sessions"
SdpUrl(flow) ==
    IF flow = "realtime" THEN "/v1/realtime?model=gpt-4o-mini-realtime-preview-2024-12-17"
    ELSE "/v1/realtime"

\* the fixed detail of the catch-all handler of each flow
GenericDetail(flow) ==
    IF flow = "realtime" THEN Text("fixed", "Error in /api/realtime-proxy")
    ELSE Text("fixed", "Error in /api/transcription-proxy")
\* the detail of the HTTPException raised when the key is missing
NoKeyDetail(flow) ==
    IF flow = "realtime" THEN Text("fixed", "No ephemeral key in response")
    ELSE Text("fixed", "No ephemeral key in Whisper session response")

\* what the client gets: PlainTextResponse(content) or HTTPException(status, detail)
PlainTextResponse(content) == [status |-> 200, kind |-> "plain", body |-> content]
HTTPException(status, detail) == [status |-> status, kind |-> "detail", body |-> detail]
NoResponse == [status |-> 0, kind |-> "none", body |-> Text("none", None)]

LogEntry(level, msg, status, body) ==
    [level |-> level, msg |-> msg, status |-> status, body |-> body]

\* httpx raise_for_status: HTTPStatusError unless the status is 2xx
IsSuccess(status) == status >= 200 /\ status <= 299

\* resp.json(): raises unless the body is JSON
JsonFails(b) == b.shape \in {"not_json", "text", "sdp"}

\* data.get("client_secret", {}).get("value"): AttributeError when data or
\* client_secret is not a dict, else the value or None
GetFails(b) == b.shape \in {"array", "secret_null"}
EphemeralKeyOf(b) == IF b.shape = "value" THEN b.value ELSE None

\* `if not ephemeral_key`
Falsy(k) == k = None \/ k = ""

\* The exception, if any, that the code between the mint call and the SDP
\* call raises for a mint outcome; "none" when the key was extracted.
MintRaises(o) ==
    IF o.kind = "raise" THEN o.exc
    ELSE IF ~IsSuccess(o.status) THEN "HTTPStatusError"
    ELSE IF JsonFails(o.body) THEN "JSONDecodeError"
    ELSE IF GetFails(o.body) THEN "AttributeError"
    ELSE IF Falsy(EphemeralKeyOf(o.body)) THEN "HTTPException"
    ELSE "none"

SdpRaises(o) ==
    IF o.kind = "raise" THEN o.exc
    ELSE IF ~IsSuccess(o.status) THEN "HTTPStatusError"
    ELSE "none"

\* as ExceptResponse, but an upstream error status is answered as 502
ExceptResponse_badgateway(flow, exc, o) ==
    IF exc = "HTTPStatusError" THEN HTTPException(502, o.body)
    ELSE HTTPException(500, GenericDetail(flow))

\* as ExceptResponse, but an HTTPException raised in the try is re-raised
ExceptResponse_reraise(flow, exc, o) ==
    IF exc = "HTTPStatusError" THEN HTTPException(o.status, o.body)
    ELSE IF exc = "HTTPException" THEN HTTPException(500, NoKeyDetail(flow))
    ELSE HTTPException(500, GenericDetail(flow))

\* the two except clauses: HTTPStatusError keeps the upstream status and
\* text, every other exception (HTTPException included) becomes the fixed 500
ExceptResponse(flow, exc, o) ==
    IF exc = "HTTPStatusError" THEN HTTPException(o.status, o.body)
    ELSE HTTPException(500, GenericDetail(flow))

ExceptLog(flow, exc, o) ==
    IF exc = "HTTPStatusError"
    THEN LogEntry("error",
                  IF flow = "realtime" THEN "HTTP error occurred while contacting OpenAI"
                  ELSE "Whisper session error",
                  o.status, o.body)
    ELSE LogEntry("error",
                  IF flow = "realtime" THEN "An unexpected error occurred in /api/realtime-proxy"
                  ELSE "Unexpected error in transcription_proxy",
                  0, Text("traceback", exc))

\* one entry of the upstream trace: a request sent (op "mint" or "exchange",
\* with its Authorization bearer and its content) or what came back for it
NoOutcome == [kind |-> "none", exc |-> None, status |-> 0, body |-> Text("none", None)]
Call(op, url, auth, content) ==
    [op |-> op, url |-> url, auth |-> auth, content |-> content, result |-> NoOutcome]
Return(op, url, o) ==
    [op |-> op, url |-> url, auth |-> None, content |-> None, result |-> o]


(* ---------------------------------------------------------------------- *)
(* Question file                                                          *)
(* ---------------------------------------------------------------------- *)
MaxLines == 3          \* lines of the longest question file

\* A line is a sequence of characters; 0 is white space.
Space == 0
FileLine(i) ==
    CASE i % 3 = 1 -> <<Space, i, Space>>       \* a padded question
      [] i % 3 = 2 -> <<Space, Space>>          \* a blank line
      [] OTHER -> <<i, Space, i>>               \* a question with inner space
MissingFile == [exists |-> FALSE, lines |-> <<>>]
FileOf(n) == [exists |-> TRUE, lines |-> [i \in 1..n |-> FileLine(i)]]
Files == {MissingFile} \cup {FileOf(n) : n \in 0..MaxLines}

RECURSIVE LStrip(_)
LStrip(s) == IF s # <<>> /\ Head(s) = Space THEN LStrip(Tail(s)) ELSE s
RECURSIVE RStrip(_)
RStrip(s) == IF s # <<>> /\ s[Len(s)] = Space THEN RStrip(SubSeq(s, 1, Len(s) - 1)) ELSE s
\* str.strip()
Strip(s) == RStrip(LStrip(s))

RECURSIVE StrippedNonEmpty(_)
StrippedNonEmpty(lines) ==
    IF lines = <<>> THEN <<>>
    ELSE IF Strip(Head(lines)) # <<>>
         THEN <<Strip(Head(lines))>> \o StrippedNonEmpty(Tail(lines))
         ELSE StrippedNonEmpty(Tail(lines))

\* results of opening the file: it opens (or is found missing), or the open
\* or read fails with an OSError other than FileNotFoundError
LoadOutcomes == {"ok", "oserror"}

\* load_questions(): the stripped non-empty lines; [] when the file is missing
load_questions(f) == IF f.exists THEN StrippedNonEmpty(f.lines) ELSE <<>>

(* ---------------------------------------------------------------------- *)
(* Function dispatcher: values                                            *)
(* ---------------------------------------------------------------------- *)
MaxSearchQuery == 200
MaxText == 1000

\* a JSON value where a string is expected: a string of some length, null,
\* or the key is absent
Str(s, len) == [t |-> "str", s |-> s, len |-> len]
Null == [t |-> "null", s |-> None, len |-> 0]
Absent == [t |-> "absent", s |-> None, len |-> 0]
EmptyStr == Str("", 0)

\* the `arguments` member of a function_call frame, by what json.loads gives
NoArguments == [kind |-> "absent", search_query |-> Absent, text |-> Absent]
NotJson == [kind |-> "not_json", search_query |-> Absent, text |-> Absent]
NotDict == [kind |-> "not_dict", search_query |-> Absent, text |-> Absent]
Dict(sq, tx) == [kind |-> "dict", search_query |-> sq, text |-> tx]

KnownNames == {"appRAG", "store_user_response", "get_next_question"}
\* a `name` that is a JSON array or object: not hashable
Unhashable == "[unhashable]"

NoIndex == [given |-> FALSE, value |-> 0]
Index(i) == [given |-> TRUE, value |-> i]

\* a received text frame
Malformed ==
    [json |-> "malformed", type |-> None, call_id |-> None, name |-> None,
     arguments |-> NoArguments, text |-> Absent, index |-> NoIndex]
NonObject ==
    [json |-> "nonobject", type |-> None, call_id |-> None, name |-> None,
     arguments |-> NoArguments, text |-> Absent, index |-> NoIndex]
Typed(type) ==
    [json |-> "object", type |-> type, call_id |-> None, name |-> None,
     arguments |-> NoArguments, text |-> Absent, index |-> NoIndex]
FunctionCall(call_id, name, arguments) ==
    [json |-> "object", type |-> "function_call", call_id |-> call_id, name |-> name,
     arguments |-> arguments, text |-> Absent, index |-> NoIndex]
UserResponse(text, index) ==
    [json |-> "object", type |-> "user_response", call_id |-> None, name |-> None,
     arguments |-> NoArguments, text |-> text, index |-> index]

ArgumentsFor(name) ==
    CASE name = "appRAG" ->
           {Dict(Str("hours", 5), Absent), Dict(Str("q", MaxSearchQuery), Absent),
            Dict(Str("q", MaxSearchQuery + 1), Absent), Dict(Absent, Absent), NotJson}
      [] name = "store_user_response" ->
           {Dict(Absent, Str("a", 1)), Dict(Absent, Str("t", MaxText)),
            Dict(Absent, Str("t", MaxText + 1)), Dict(Str("hours", 5), Absent),
            Dict(Absent, Null), NotDict, NoArguments}
      [] name = "get_next_question" ->
           {Dict(Absent, Absent), Dict(Absent, Str("a", 1)), NotJson}
      [] OTHER -> {Dict(Absent, Absent)}

Names == KnownNames \cup {"nope", None, Unhashable}
FunctionCallFrames ==
    UNION {{FunctionCall("id1", n, a) : a \in ArgumentsFor(n)} : n \in Names}
    \cup {FunctionCall("id2", "appRAG", Dict(Str("hours", 5), Absent)),
          FunctionCall("id2", "store_user_response", Dict(Absent, Str("t", MaxText + 1))),
          FunctionCall("id2", "nope", Dict(Absent, Absent))}

Frames ==
    {Malformed, NonObject, Typed("bogus"), Typed(None), Typed("next_question"),
     UserResponse(Str("a", 1), NoIndex), UserResponse(Absent, Index(5))}
    \cup FunctionCallFrames

\* the frames that drive the question sequencer
QuestionFrames ==
    {FunctionCall("id1", "get_next_question", Dict(Absent, Absent)),
     FunctionCall("id1", "store_user_response", Dict(Absent, Str("a", 1))),
     Typed("next_question"),
     UserResponse(Str("a", 1), NoIndex)}

\* a JSON message sent to the client
Payload(tag, index, q, s) == [tag |-> tag, index |-> index, q |-> q, s |-> s]
Success(call_id, result) ==
    [status |-> "success", type |-> None, call_id |-> call_id, payload |-> result]
Error(call_id, tag, name) ==
    [status |-> "error", type |-> None, call_id |-> call_id,
     payload |-> Payload(tag, -1, <<>>, name)]
Question(i, q) ==
    [status |-> None, type |-> "question", call_id |-> None,
     payload |-> Payload("question", i, q, None)]
EndMessage == "all questions done"
End ==
    [status |-> None, type |-> "end", call_id |-> None,
     payload |-> Payload("end", -1, <<>>, EndMessage)]
UnknownType(type) ==
    [status |-> None, type |-> "error", call_id |-> None,
     payload |-> Payload("unknown_type", -1, <<>>, type)]

\* the kinds of the error messages among the messages sent
ErrorTags(replies) ==
    {replies[i].payload.tag : i \in {j \in 1..Len(replies) :
                                       replies[j].status = "error" \/ replies[j].type = "error"}}

WsLog(level, msg) == [level |-> level, msg |-> msg]

(* ---------------------------------------------------------------------- *)
(* The three functions; cs is conversation_state                          *)
(* ---------------------------------------------------------------------- *)
Canned == "open 9 to 22"

\* a handler's outcome: the exception it raised (None if it returned), the
\* conversation_state it leaves and the value it returns
Returned(cs, result) == [raised |-> None, cs |-> cs, result |-> result]
Threw(exc, cs) == [raised |-> exc, cs |-> cs, result |-> Payload("none", -1, <<>>, None)]

\* as appRAG, but the reply is made from the query (line 219, commented out)
appRAG_echo(cs, search_query) == Returned(cs, Payload("canned", -1, <<>>, search_query.s))

appRAG(cs, search_query) == Returned(cs, Payload("canned", -1, <<>>, Canned))

Max(a, b) == IF a >= b THEN a ELSE b

\* as store_user_response, but the answer is filed under the index of the
\* question that comes next
store_user_response_next(cs, text) ==
    LET idx == cs.current_index
    IN Returned([cs EXCEPT !.responses = Append(@, [index |-> idx, text |-> text])],
                Payload("stored", idx, <<>>, None))

store_user_response(cs, text) ==
    LET idx == Max(cs.current_index - 1, 0)
    IN Returned([cs EXCEPT !.responses = Append(@, [index |-> idx, text |-> text])],
                Payload("stored", idx, <<>>, None))

\* as get_next_question, but the index is not advanced
get_next_question_noadvance(cs, f, io) ==
    IF io = "oserror" THEN Threw("OSError", cs)
    ELSE LET questions == load_questions(f)
             i == cs.current_index
         IN IF i < Len(questions)
            THEN Returned(cs, Payload("question", i, questions[i + 1], None))
            ELSE Returned(cs, Payload("end", -1, <<>>, EndMessage))

\* as get_next_question, but the index is advanced on every call
get_next_question_overrun(cs, f, io) ==
    IF io = "oserror" THEN Threw("OSError", cs)
    ELSE LET questions == load_questions(f)
             i == cs.current_index
         IN IF i < Len(questions)
            THEN Returned([cs EXCEPT !.current_index = @ + 1],
                          Payload("question", i, questions[i + 1], None))
            ELSE Returned([cs EXCEPT !.current_index = @ + 1],
                          Payload("end", -1, <<>>, EndMessage))

get_next_question(cs, f, io) ==
    IF io = "oserror" THEN Threw("OSError", cs)
    ELSE LET questions == load_questions(f)
             i == cs.current_index
         IN IF i < Len(questions)
            THEN Returned([cs EXCEPT !.current_index = @ + 1],
                          Payload("question", i, questions[i + 1], None))
            ELSE Returned(cs, Payload("end", -1, <<>>, EndMessage))

\* schema(**arguments): does the pydantic model accept the dict
FieldOk(v, max) == v.t = "str" /\ v.len <= max
\* as Validates, but without the max_length constraints
Validates_nolimit(name, a) ==
    CASE name = "appRAG" -> a.search_query.t = "str"
      [] name = "store_user_response" -> a.text.t = "str"
      [] OTHER -> TRUE

Validates(name, a) ==
    CASE name = "appRAG" -> FieldOk(a.search_query, MaxSearchQuery)
      [] name = "store_user_response" -> FieldOk(a.text, MaxText)
      [] OTHER -> TRUE

\* function_to_call(**validated_args.dict())
CallFunction(name, a, cs, f, io) ==
    CASE name = "appRAG" -> appRAG(cs, a.search_query)
      [] name = "store_user_response" -> store_user_response(cs, a.text)
      [] OTHER -> get_next_question(cs, f, io)

(* ---------------------------------------------------------------------- *)
(* One pass of the receive loop of websocket_endpoint                     *)
(* ---------------------------------------------------------------------- *)
\* What handling one frame does: whether the loop exits, the messages sent,
\* the new conversation_state, user_response list and local cursor, the log
\* entries written, and the function that was called (None if none was).
Effect(exit, replies, cs, ur, cur, log, called) ==
    [exit |-> exit, replies |-> replies, cs |-> cs, ur |-> ur, cur |-> cur, log |-> log,
     called |-> called]

\* the outer `except Exception`: the error is logged and the loop is left
LoopError(cs, ur, cur) ==
    Effect(TRUE, <<>>, cs, ur, cur, <<WsLog("error", "An error occurred in WebSocket")>>, None)

\* as KnownFunction, but the function works on a copy of conversation_state
\* that is dropped afterwards
KnownFunction_copy(f, io, cs, ur, cur, fl) ==
    LET a == f.arguments
    IN IF a.kind # "dict"
       THEN Effect(FALSE, <<Error(f.call_id, "execution_failed", f.name)>>, cs, ur, cur,
                   <<WsLog("error", "Function execution failed")>>, None)
       ELSE IF ~Validates(f.name, a)
       THEN Effect(FALSE, <<Error(f.call_id, "invalid_arguments", f.name)>>, cs, ur, cur,
                   <<WsLog("error", "Invalid arguments")>>, None)
       ELSE LET h == CallFunction(f.name, a, cs, fl, io)
            IN IF h.raised # None
               THEN Effect(FALSE, <<Error(f.call_id, "execution_failed", f.name)>>, cs, ur, cur,
                           <<WsLog("error", "Function execution failed")>>, f.name)
               ELSE Effect(FALSE, <<Success(f.call_id, h.result)>>, cs, ur, cur,
                           <<WsLog("info", "Successfully executed function")>>, f.name)

\* the branch for a name in AVAILABLE_FUNCTIONS: the inner try and its two
\* except clauses
KnownFunction(f, io, cs, ur, cur, fl) ==
    LET a == f.arguments
    IN IF a.kind # "dict"
       THEN \* json.loads(None) or json.loads of bad text or schema(**non-dict)
            Effect(FALSE, <<Error(f.call_id, "execution_failed", f.name)>>, cs, ur, cur,
                   <<WsLog("error", "Function execution failed")>>, None)
       ELSE IF ~Validates(f.name, a)
       THEN Effect(FALSE, <<Error(f.call_id, "invalid_arguments", f.name)>>, cs, ur, cur,
                   <<WsLog("error", "Invalid arguments")>>, None)
       ELSE LET h == CallFunction(f.name, a, cs, fl, io)
            IN IF h.raised # None
               THEN Effect(FALSE, <<Error(f.call_id, "execution_failed", f.name)>>, h.cs, ur, cur,
                           <<WsLog("error", "Function execution failed")>>, f.name)
               ELSE Effect(FALSE, <<Success(f.call_id, h.result)>>, h.cs, ur, cur,
                           <<WsLog("info", "Successfully executed function")>>, f.name)

\* as OnFunctionCall, but the function is looked up without the membership
\* test, so that an unknown name raises KeyError
OnFunctionCall_keyerror(f, io, cs, ur, cur, fl) ==
    IF f.name \in KnownNames
    THEN KnownFunction(f, io, cs, ur, cur, fl)
    ELSE LoopError(cs, ur, cur)

\* the branch for msg_type == "function_call"
OnFunctionCall(f, io, cs, ur, cur, fl) ==
    IF f.name = Unhashable
    THEN LoopError(cs, ur, cur)     \* `function_name in AVAILABLE_FUNCTIONS` raises TypeError
    ELSE IF f.name \in KnownNames
    THEN KnownFunction(f, io, cs, ur, cur, fl)
    ELSE Effect(FALSE, <<Error(f.call_id, "unknown_function", f.name)>>, cs, ur, cur,
                <<WsLog("warning", "Unknown function requested")>>, None)

\* as OnNextQuestion, but with the cursor of conversation_state in place of
\* the connection's own
OnNextQuestion_shared(qs, cs, ur, cur) ==
    IF cs.current_index < Len(qs)
    THEN Effect(FALSE, <<Question(cs.current_index, qs[cs.current_index + 1])>>,
                [cs EXCEPT !.current_index = @ + 1], ur, cur, <<>>, None)
    ELSE Effect(FALSE, <<End>>, cs, ur, cur, <<>>, None)

\* the branch for msg_type == "next_question": the connection's own list
\* and cursor
OnNextQuestion(qs, cs, ur, cur) ==
    IF cur < Len(qs)
    THEN Effect(FALSE, <<Question(cur, qs[cur + 1])>>, cs, ur, cur + 1, <<>>, None)
    ELSE Effect(FALSE, <<End>>, cs, ur, cur, <<>>, None)

\* as OnUserResponse, but the answer goes to conversation_state with its index
OnUserResponse_indexed(f, cs, ur, cur) ==
    LET user_text == IF f.text.t = "absent" THEN EmptyStr ELSE f.text
        index == IF f.index.given THEN f.index.value ELSE cur - 1
    IN Effect(FALSE, <<>>,
              [cs EXCEPT !.responses = Append(@, [index |-> index, text |-> user_text])],
              ur, cur, <<WsLog("info", "answer received")>>, None)

\* the branch for msg_type == "user_response": the text (default "") goes to
\* the module-level list, the index is only logged
OnUserResponse(f, cs, ur, cur) ==
    LET user_text == IF f.text.t = "absent" THEN EmptyStr ELSE f.text
    IN Effect(FALSE, <<>>, cs, Append(ur, user_text), cur, <<WsLog("info", "answer received")>>,
              None)

Dispatch(f, io, qs, cs, ur, cur, fl) ==
    IF f.json # "object"
    THEN LoopError(cs, ur, cur)     \* json.loads raises, or data has no .get
    ELSE IF f.type = "function_call" THEN OnFunctionCall(f, io, cs, ur, cur, fl)
    ELSE IF f.type = "next_question" THEN OnNextQuestion(qs, cs, ur, cur)
    ELSE IF f.type = "user_response" THEN OnUserResponse(f, cs, ur, cur)
    ELSE Effect(FALSE, <<UnknownType(f.type)>>, cs, ur, cur, <<>>, None)

NoFrame ==
    [json |-> "none", type |-> None, call_id |-> None, name |-> None,
     arguments |-> NoArguments, text |-> Absent, index |-> NoIndex]

VARIABLES
    rpc,        \* rpc[r]: where request r is: idle, mint, sdp, done
    rflow,      \* rflow[r]: which endpoint serves r
    offer_sdp,  \* offer_sdp[r]: local of the handler
    ephemeral_key, \* ephemeral_key[r]: local of the handler
    calls,      \* calls[r]: upstream calls and their returns, in order
    resp,       \* resp[r]: what the client of r received
    rlog,       \* rlog[r]: log entries written for r
    file,               \* the question file (static)
    conversation_state, \* the module-level dict
    user_response,      \* the module-level list
    ws,                 \* ws[c]: closed (not yet connected), open, ended
    questions,          \* questions[c]: local of websocket_endpoint
    current_index,      \* current_index[c]: local of websocket_endpoint
    recvd,              \* recvd[c]: text frames received on c
    sent,               \* sent[c]: JSON messages sent on c
    errors,             \* errors[c]: the kinds of error message sent on c so far
    served,             \* what the get_next_question calls that returned have returned, in order
    asked,              \* asked[c]: the messages sent for each next_question frame of c, in order
    last                \* the last step of the dispatcher: connection, frame, messages, log

rvars == <<rpc, rflow, offer_sdp, ephemeral_key, calls, resp, rlog>>
wvars == <<file, conversation_state, user_response, ws, questions, current_index,
           recvd, sent, errors, served, asked, last>>
vars == <<rvars, wvars>>

Last(op, c, f, replies, log, called) ==
    [op |-> op, conn |-> c, frame |-> f, replies |-> replies, log |-> log, called |-> called]

Init ==
    /\ rpc = [r \in Reqs |-> "idle"]
    /\ rflow = [r \in Reqs |-> None]
    /\ offer_sdp = [r \in Reqs |-> None]
    /\ ephemeral_key = [r \in Reqs |-> None]
    /\ calls = [r \in Reqs |-> <<>>]
    /\ resp = [r \in Reqs |-> NoResponse]
    /\ rlog = [r \in Reqs |-> <<>>]
    /\ file \in Files
    /\ conversation_state = [current_index |-> 0, responses |-> <<>>]
    /\ user_response = <<>>
    /\ ws = [c \in Conns |-> "closed"]
    /\ questions = [c \in Conns |-> <<>>]
    /\ current_index = [c \in Conns |-> 0]
    /\ recvd = [c \in Conns |-> 0]
    /\ sent = [c \in Conns |-> 0]
    /\ errors = [c \in Conns |-> {}]
    /\ served = <<>>
    /\ asked = [c \in Conns |-> <<>>]
    /\ last = Last("start", 0, NoFrame, <<>>, <<>>, None)

(* ---------------------------------------------------------------------- *)
(* Function dispatcher: actions                                           *)
(* ---------------------------------------------------------------------- *)
\* as Connect, but a greeting is sent to the client once it is accepted
Connect_hello(c, io) ==
    /\ ws[c] = "closed"
    /\ IF io = "oserror"
       THEN /\ ws' = [ws EXCEPT ![c] = "ended"]
            /\ UNCHANGED questions
            /\ last' = Last("connect", c, NoFrame, <<>>,
                            <<WsLog("info", "WebSocket connection established"),
                              WsLog("error", "Exception in ASGI application")>>, None)
       ELSE /\ ws' = [ws EXCEPT ![c] = "open"]
            /\ questions' = [questions EXCEPT ![c] = load_questions(file)]
            /\ last' = Last("connect", c, NoFrame, <<>>,
                            <<WsLog("info", "WebSocket connection established")>>, None)
    /\ sent' = [sent EXCEPT ![c] = @ + 1]
    /\ UNCHANGED <<file, conversation_state, user_response, current_index, recvd, errors,
                   served, asked>>
    /\ UNCHANGED rvars

\* a client connects: accept, load the questions, cursor 0.  An OSError
\* from load_questions is raised outside the try and ends the endpoint.
Connect(c, io) ==
    /\ ws[c] = "closed"
    /\ IF io = "oserror"
       THEN /\ ws' = [ws EXCEPT ![c] = "ended"]
            /\ UNCHANGED questions
            /\ last' = Last("connect", c, NoFrame, <<>>,
                            <<WsLog("info", "WebSocket connection established"),
                              WsLog("error", "Exception in ASGI application")>>, None)
       ELSE /\ ws' = [ws EXCEPT ![c] = "open"]
            /\ questions' = [questions EXCEPT ![c] = load_questions(file)]
            /\ last' = Last("connect", c, NoFrame, <<>>,
                            <<WsLog("info", "WebSocket connection established")>>, None)
    /\ UNCHANGED <<file, conversation_state, user_response, current_index, recvd, sent, errors,
                   served, asked>>
    /\ UNCHANGED rvars

\* receive_text returns frame f and the loop body runs to the next receive
Receive(c, f, io) ==
    /\ ws[c] = "open"
    /\ LET e == Dispatch(f, io, questions[c], conversation_state, user_response,
                         current_index[c], file)
       IN /\ conversation_state' = e.cs
          /\ user_response' = e.ur
          /\ current_index' = [current_index EXCEPT ![c] = e.cur]
          /\ sent' = [sent EXCEPT ![c] = @ + Len(e.replies)]
          /\ errors' = [errors EXCEPT ![c] = @ \cup ErrorTags(e.replies)]
          /\ ws' = [ws EXCEPT ![c] = IF e.exit THEN "ended" ELSE "open"]
          /\ last' = Last("receive", c, f, e.replies, e.log, e.called)
          /\ served' = IF e.called = "get_next_question" /\ e.replies[1].status = "success"
                        THEN Append(served, e.replies[1].payload) ELSE served
          /\ asked' = IF f.json = "object" /\ f.type = "next_question"
                       THEN [asked EXCEPT ![c] = Append(@, e.replies)] ELSE asked
    /\ recvd' = [recvd EXCEPT ![c] = @ + 1]
    /\ UNCHANGED <<file, questions>>
    /\ UNCHANGED rvars

\* as Disconnect, but without the `except WebSocketDisconnect` clause: the
\* disconnect falls into `except Exception`
Disconnect_error(c) ==
    /\ ws[c] = "open"
    /\ ws' = [ws EXCEPT ![c] = "ended"]
    /\ last' = Last("disconnect", c, NoFrame, <<>>,
                    <<WsLog("error", "An error occurred in WebSocket")>>, None)
    /\ UNCHANGED <<file, conversation_state, user_response, questions, current_index,
                   recvd, sent, errors, served, asked>>
    /\ UNCHANGED rvars

\* the client goes away: receive_text raises WebSocketDisconnect
Disconnect(c) ==
    /\ ws[c] = "open"
    /\ ws' = [ws EXCEPT ![c] = "ended"]
    /\ last' = Last("disconnect", c, NoFrame, <<>>,
                    <<WsLog("info", "Client disconnected from WebSocket.")>>, None)
    /\ UNCHANGED <<file, conversation_state, user_response, questions, current_index,
                   recvd, sent, errors, served, asked>>
    /\ UNCHANGED rvars

\* only a get_next_question call opens the file while a frame is handled
LoadsFor(f) ==
    IF f.type = "function_call" /\ f.name = "get_next_question" THEN LoadOutcomes ELSE {"ok"}

RECURSIVE SumOver(_, _)
SumOver(fn, S) ==
    IF S = {} THEN 0
    ELSE LET x == CHOOSE y \in S : TRUE IN fn[x] + SumOver(fn, S \ {x})
TotalReceived == SumOver(recvd, Conns)

(* ---------------------------------------------------------------------- *)
(* Negotiation relay: actions                                             *)
(* ---------------------------------------------------------------------- *)
\* as Finish, but the key stays where it was put once the request has ended
Finish_keep(r, response, entry) ==
    /\ rpc' = [rpc EXCEPT ![r] = "done"]
    /\ resp' = [resp EXCEPT ![r] = response]
    /\ rlog' = [rlog EXCEPT ![r] = Append(@, entry)]
    /\ offer_sdp' = [offer_sdp EXCEPT ![r] = None]
    /\ UNCHANGED ephemeral_key

\* the request ends: the response goes out and the locals are gone
Finish(r, response, entry) ==
    /\ rpc' = [rpc EXCEPT ![r] = "done"]
    /\ resp' = [resp EXCEPT ![r] = response]
    /\ rlog' = [rlog EXCEPT ![r] = Append(@, entry)]
    /\ offer_sdp' = [offer_sdp EXCEPT ![r] = None]
    /\ ephemeral_key' = [ephemeral_key EXCEPT ![r] = None]

\* POST arrives: the body is read and decoded, the offer is logged and the
\* credential-mint call is sent.  A body that does not decode raises.
Post(r, flow, body) ==
    /\ rpc[r] = "idle"
    /\ rflow' = [rflow EXCEPT ![r] = flow]
    /\ IF body = BadBytes
       THEN /\ Finish(r, ExceptResponse(flow, "UnicodeDecodeError", Raised("UnicodeDecodeError")),
                      ExceptLog(flow, "UnicodeDecodeError", Raised("UnicodeDecodeError")))
            /\ UNCHANGED calls
       ELSE /\ rpc' = [rpc EXCEPT ![r] = "mint"]
            /\ offer_sdp' = [offer_sdp EXCEPT ![r] = body]
            /\ rlog' = [rlog EXCEPT ![r] =
                          Append(@, LogEntry("info", "Received Offer SDP", 0,
                                             Text("offer_prefix", body)))]
            /\ calls' = [calls EXCEPT ![r] =
                           Append(@, Call("mint", MintUrl(flow), StandingKey, None))]
            /\ UNCHANGED <<ephemeral_key, resp>>
    /\ UNCHANGED wvars

\* as MintReturn, but a transport failure of the mint call is retried once
MintReturn_retry(r, o) ==
    /\ rpc[r] = "mint"
    /\ LET exc == MintRaises(o)
           flow == rflow[r]
       IN IF o.kind = "raise" /\ Len(calls[r]) < 2
          THEN /\ calls' = [calls EXCEPT ![r] =
                              Append(Append(@, Return("mint_return", MintUrl(flow), o)),
                                     Call("mint", MintUrl(flow), StandingKey, None))]
               /\ UNCHANGED <<rpc, ephemeral_key, rlog, offer_sdp, resp>>
          ELSE IF exc = "none"
          THEN /\ rpc' = [rpc EXCEPT ![r] = "sdp"]
               /\ ephemeral_key' = [ephemeral_key EXCEPT ![r] = EphemeralKeyOf(o.body)]
               /\ rlog' = [rlog EXCEPT ![r] =
                             Append(@, LogEntry("info", "ephemeral key received", 0,
                                                Text("none", None)))]
               /\ calls' = [calls EXCEPT ![r] =
                              Append(Append(@, Return("mint_return", MintUrl(flow), o)),
                                     Call("exchange", SdpUrl(flow),
                                          EphemeralKeyOf(o.body), offer_sdp[r]))]
               /\ UNCHANGED <<offer_sdp, resp>>
          ELSE /\ Finish(r, ExceptResponse(flow, exc, o), ExceptLog(flow, exc, o))
               /\ calls' = [calls EXCEPT ![r] =
                              Append(@, Return("mint_return", MintUrl(flow), o))]
    /\ UNCHANGED rflow
    /\ UNCHANGED wvars

\* the mint call comes back: raise_for_status, json(), key extraction; then
\* either the SDP call is sent with the key, or an except clause answers
MintReturn(r, o) ==
    /\ rpc[r] = "mint"
    /\ LET exc == MintRaises(o)
           flow == rflow[r]
       IN IF exc = "none"
          THEN /\ rpc' = [rpc EXCEPT ![r] = "sdp"]
               /\ ephemeral_key' = [ephemeral_key EXCEPT ![r] = EphemeralKeyOf(o.body)]
               /\ rlog' = [rlog EXCEPT ![r] =
                             Append(@, LogEntry("info", "ephemeral key received", 0,
                                                Text("none", None)))]
               /\ calls' = [calls EXCEPT ![r] =
                              Append(Append(@, Return("mint_return", MintUrl(flow), o)),
                                     Call("exchange", SdpUrl(flow),
                                          EphemeralKeyOf(o.body), offer_sdp[r]))]
               /\ UNCHANGED <<offer_sdp, resp>>
          ELSE /\ Finish(r, ExceptResponse(flow, exc, o), ExceptLog(flow, exc, o))
               /\ calls' = [calls EXCEPT ![r] =
                              Append(@, Return("mint_return", MintUrl(flow), o))]
    /\ UNCHANGED rflow
    /\ UNCHANGED wvars

\* as SdpReturn, but the entry logged for the answer names the bearer token
\* the exchange was made with
SdpReturn_logkey(r, o) ==
    /\ rpc[r] = "sdp"
    /\ LET exc == SdpRaises(o)
           flow == rflow[r]
       IN /\ IF exc = "none"
             THEN Finish(r, PlainTextResponse(o.body),
                         LogEntry("info", "Answer SDP received", 0,
                                  Text("bearer", ephemeral_key[r])))
             ELSE Finish(r, ExceptResponse(flow, exc, o), ExceptLog(flow, exc, o))
          /\ calls' = [calls EXCEPT ![r] =
                         Append(@, Return("exchange_return", SdpUrl(flow), o))]
    /\ UNCHANGED rflow
    /\ UNCHANGED wvars

\* the SDP call comes back: raise_for_status, then the answer text is
\* returned as it is
SdpReturn(r, o) ==
    /\ rpc[r] = "sdp"
    /\ LET exc == SdpRaises(o)
           flow == rflow[r]
       IN /\ IF exc = "none"
             THEN Finish(r, PlainTextResponse(o.body),
                         LogEntry("info", "Answer SDP received", 0, Text("none", None)))
             ELSE Finish(r, ExceptResponse(flow, exc, o), ExceptLog(flow, exc, o))
          /\ calls' = [calls EXCEPT ![r] =
                         Append(@, Return("exchange_return", SdpUrl(flow), o))]
    /\ UNCHANGED rflow
    /\ UNCHANGED wvars

NextRelay ==
    \/ \E r \in Reqs, flow \in Flows, body \in Bodies : Post(r, flow, body)
    \/ \E r \in Reqs, o \in MintOutcomes : MintReturn(r, o)
    \/ \E r \in Reqs, o \in SdpOutcomes : SdpReturn(r, o)

NextDispatch ==
    \/ \E c \in Clients, io \in LoadOutcomes : Connect(c, io)
    \/ \E c \in Clients, f \in Frames : \E io \in LoadsFor(f) :
          TotalReceived < MaxFrames /\ Receive(c, f, io)
    \/ \E c \in Clients : Disconnect(c)

NextQuestions ==
    \/ \E c \in Conns, io \in LoadOutcomes : Connect(c, io)
    \/ \E c \in Conns, f \in QuestionFrames : \E io \in LoadsFor(f) :
          TotalReceived < MaxCalls /\ Receive(c, f, io)
    \/ \E c \in Conns : Disconnect(c)

\* the whole server: negotiation requests and WebSocket traffic interleaved
Next == NextRelay \/ NextDispatch \/ NextQuestions
Spec == Init /\ [][Next]_vars

\* the whole server on a small scale: one negotiation request with a few
\* upstream outcomes, beside clients that send one frame of every kind
ServerFrames ==
    {FunctionCall("id1", "get_next_question", Dict(Absent, Absent)),
     FunctionCall("id1", "store_user_response", Dict(Absent, Str("a", 1))),
     FunctionCall("id1", "store_user_response", Dict(Absent, Str("t", MaxText + 1))),
     FunctionCall("id1", "appRAG", Dict(Str("hours", 5), Absent)),
     FunctionCall("id1", "nope", Dict(Absent, Absent)),
     Typed("next_question"), UserResponse(Str("a", 1), NoIndex), Typed("bogus")}
ServerMintOutcomes == {Response(200, Text("value", "ek1")), Response(401, Text("text", "errA"))}
ServerSdpOutcomes == {Response(200, Text("sdp", "answerA")), Raised("ReadTimeout")}
NextServer ==
    \/ \E body \in {"offerA", BadBytes} : Post(1, "realtime", body)
    \/ \E o \in ServerMintOutcomes : MintReturn(1, o)
    \/ \E o \in ServerSdpOutcomes : SdpReturn(1, o)
    \/ \E c \in Clients, io \in LoadOutcomes : Connect(c, io)
    \/ \E c \in Clients, f \in ServerFrames : \E io \in LoadsFor(f) :
          TotalReceived < MaxFrames /\ Receive(c, f, io)
    \/ \E c \in Clients : Disconnect(c)
SpecServer == Init /\ [][NextServer]_vars

\* the negotiation endpoints alone
InitRelay == Init /\ file = MissingFile
SpecRelay == InitRelay /\ [][NextRelay]_vars
\* the WebSocket endpoint with every kind of frame, sent by the clients
SpecDispatch == Init /\ [][NextDispatch]_vars
\* the WebSocket endpoint with the frames that use the questions and the
\* answers, sent over all connections
SpecQuestions == Init /\ [][NextQuestions]_vars
(* ---------------------------------------------------------------------- *)
(* Negotiation relay: properties                                          *)
(* ---------------------------------------------------------------------- *)
Ops(r) == [i \in 1..Len(calls[r]) |-> calls[r][i].op]
FullTrace == <<"mint", "mint_return", "exchange", "exchange_return">>
IsPrefix(s, t) == Len(s) <= Len(t) /\ s = SubSeq(t, 1, Len(s))
NoExchange(r) == \A i \in 1..Len(calls[r]) : calls[r][i].op # "exchange"

\* an upstream call of r came back with a status that is not 2xx
ErrorStatusAt(r, i) ==
    /\ calls[r][i].op \in {"mint_return", "exchange_return"}
    /\ calls[r][i].result.kind = "response"
    /\ (calls[r][i].result.status < 200 \/ calls[r][i].result.status > 299)

\* the mint call of r came back 2xx with JSON that has no non-empty
\* client_secret.value
MintLackedKey(r) ==
    /\ Len(calls[r]) >= 2
    /\ calls[r][2].op = "mint_return"
    /\ calls[r][2].result.kind = "response"
    /\ calls[r][2].result.status = 200
    /\ \/ calls[r][2].result.body.shape \in {"no_secret", "secret_null", "no_value", "array"}
       \/ calls[r][2].result.body = Text("value", "")

\* both upstream calls of r came back 2xx and the mint response had a key
BothSucceeded(r) ==
    /\ Len(calls[r]) = 4
    /\ calls[r][2].result.kind = "response" /\ calls[r][2].result.status = 200
    /\ calls[r][2].result.body.shape = "value" /\ calls[r][2].result.body.value # ""
    /\ calls[r][4].result.kind = "response" /\ calls[r][4].result.status = 200

\* C1: a negotiation issues at most one mint call and at most one exchange
\* call, the exchange only after the mint call has returned, and nothing is
\* retried: the upstream trace is always a prefix of mint, its return,
\* exchange, its return.  The client is answered only when the request is
\* over, and when both calls succeeded the trace is the whole of it and the
\* answer is the upstream SDP answer.
C1_OneMintThenOneExchange ==
    \A r \in Reqs :
        /\ IsPrefix(Ops(r), FullTrace)
        /\ (resp[r] # NoResponse => rpc[r] = "done")
        /\ (rpc[r] # "done" => (Len(calls[r]) = 0 \/ calls[r][Len(calls[r])].op \in {"mint", "exchange"}))
        /\ (rpc[r] = "done" /\ BothSucceeded(r) =>
               /\ Ops(r) = FullTrace
               /\ resp[r] = PlainTextResponse(calls[r][4].result.body))

C1_Witness ==
    \E r \in Reqs : rpc[r] = "done" /\ BothSucceeded(r) /\ resp[r].kind = "plain"

\* C2: when the mint call returns 2xx without a non-empty
\* client_secret.value, the client gets the "No ephemeral key" error and no
\* exchange call is made.
C2_MissingKeyErrorReachesClient ==
    \A r \in Reqs :
        (rpc[r] = "done" /\ MintLackedKey(r)) =>
            /\ resp[r] = HTTPException(500, NoKeyDetail(rflow[r]))
            /\ NoExchange(r)

\* C3: when the mint call or the exchange call returns a status that is not
\* 2xx, the client is answered with that status and that body, and after a
\* failed mint call there is no exchange call.
C3_UpstreamErrorPassedThrough ==
    \A r \in Reqs : \A i \in 1..Len(calls[r]) :
        ErrorStatusAt(r, i) =>
            /\ rpc[r] = "done"
            /\ resp[r] = HTTPException(calls[r][i].result.status, calls[r][i].result.body)
            /\ (calls[r][i].op = "mint_return" => NoExchange(r))

C3_Witness ==
    /\ \E r \in Reqs : Len(calls[r]) = 2 /\ ErrorStatusAt(r, 2) /\ resp[r].status = 401
    /\ \E r \in Reqs : Len(calls[r]) = 4 /\ ErrorStatusAt(r, 4) /\ resp[r].status = 503

\* C4: a request that ends otherwise than with the SDP answer or with an
\* upstream error status (body not decodable, network error, timeout,
\* malformed JSON, missing credential) is answered 500 with the fixed message
\* of its flow.
C4_OtherFailuresAreGeneric500 ==
    \A r \in Reqs :
        (/\ rpc[r] = "done"
         /\ ~BothSucceeded(r)
         /\ ~\E i \in 1..Len(calls[r]) : ErrorStatusAt(r, i)) =>
            resp[r] = HTTPException(500,
                        IF rflow[r] = "realtime" THEN Text("fixed", "Error in /api/realtime-proxy")
                        ELSE Text("fixed", "Error in /api/transcription-proxy"))

C4_Witness ==
    /\ \E r \in Reqs : rpc[r] = "done" /\ MintLackedKey(r) /\ resp[r].status = 500
    /\ \E r \in Reqs : /\ rpc[r] = "done" /\ Len(calls[r]) = 4
                       /\ calls[r][4].result.kind = "raise"
                       /\ calls[r][4].result.exc = "ReadTimeout"
                       /\ resp[r].status = 500

\* an entry of the upstream trace with the value of the minted key blotted
\* out, in the mint response that carries it and in the bearer of the exchange
Blind(e) ==
    [e EXCEPT !.auth = IF e.op = "exchange" THEN "key" ELSE @,
              !.result = IF @.body.shape = "value" /\ @.body.value \in EphemeralKeys
                         THEN [@ EXCEPT !.body = Text("value", "key")] ELSE @]
BlindTrace(r) == [i \in 1..Len(calls[r]) |-> Blind(calls[r][i])]
\* two requests with the same endpoint, the same body and the same upstream
\* outcomes, the value of the minted key apart
SameButKey(r1, r2) ==
    /\ rflow[r1] = rflow[r2]
    /\ Len(rlog[r1]) >= 1 /\ Len(rlog[r2]) >= 1 /\ rlog[r1][1] = rlog[r2][1]
    /\ BlindTrace(r1) = BlindTrace(r2)
MintedKey(r) ==
    IF Len(calls[r]) >= 2 THEN EphemeralKeyOf(calls[r][2].result.body) ELSE None

\* C13: the value of the minted key is in no response and in no log entry:
\* a response carries the answer text of the exchange, the body of an
\* upstream error or a fixed message, and two requests that differ only in
\* the value of the key have the same response and the same log.
C13_CredentialNeverLoggedOrReturned ==
    /\ \A r \in Reqs :
          /\ resp[r].body.shape \in {"none", "sdp", "text", "fixed"}
          /\ resp[r].body.value \notin EphemeralKeys
          /\ \A i \in 1..Len(rlog[r]) : rlog[r][i].body.value \notin EphemeralKeys
    /\ \A r1 \in Reqs, r2 \in Reqs :
          SameButKey(r1, r2) => resp[r1] = resp[r2] /\ rlog[r1] = rlog[r2]

C13_Witness ==
    \E r1 \in Reqs, r2 \in Reqs :
        /\ rpc[r1] = "done" /\ rpc[r2] = "done"
        /\ SameButKey(r1, r2)
        /\ MintedKey(r1) = "ek1" /\ MintedKey(r2) = "ek2"
        /\ resp[r1].kind = "plain" /\ resp[r1].body = Text("sdp", "answerA")

\* the exchange calls of request r
Exchanges(r) == {i \in 1..Len(calls[r]) : calls[r][i].op = "exchange"}
\* what belongs to request r
Own(r) == <<rpc[r], rflow[r], offer_sdp[r], ephemeral_key[r], calls[r], resp[r], rlog[r]>>

\* C20: with several negotiation requests in flight, the bearer of the
\* exchange call of a request is the key that the mint call of that request
\* returned; the key is used for one exchange call at most and is held
\* nowhere once the request has ended; a step of a request changes nothing
\* of another request and nothing of the dispatcher.
C20_KeyStaysWithItsRequest ==
    /\ [](\A r \in Reqs :
            /\ \A i \in Exchanges(r) :
                  /\ i > 2
                  /\ calls[r][2].op = "mint_return"
                  /\ calls[r][i].auth = calls[r][2].result.body.value
                  /\ calls[r][i].auth \in EphemeralKeys
            /\ Cardinality(Exchanges(r)) <= 1
            /\ rpc[r] = "sdp" => ephemeral_key[r] = calls[r][2].result.body.value
            /\ rpc[r] \in {"idle", "mint", "done"} => ephemeral_key[r] = None)
    /\ [][/\ \E r \in Reqs : \A q \in Reqs \ {r} : Own(q)' = Own(q)
          /\ wvars' = wvars]_vars

C20_Witness ==
    \E r \in Reqs, q \in Reqs :
        /\ rpc[r] = "sdp" /\ rpc[q] = "done"
        /\ Len(calls[r]) = 3 /\ Len(calls[q]) = 4
        /\ ephemeral_key[r] = "ek1" /\ ephemeral_key[q] = None
        /\ calls[r][3].auth = "ek1"
        /\ calls[q][3].auth = "ek2" /\ calls[q][3].op = "exchange"
        /\ resp[q].status = 200
(* ---------------------------------------------------------------------- *)
(* Question sequencer and function dispatcher: properties                 *)
(* ---------------------------------------------------------------------- *)
\* the questions of a file, written down from its lines: line i is a
\* question unless i % 3 = 2, and its text is the line without its padding
RECURSIVE QuestionsOfLines(_)
QuestionsOfLines(n) ==
    IF n = 0 THEN <<>>
    ELSE QuestionsOfLines(n - 1) \o
         (CASE n % 3 = 1 -> << <<n>> >>
            [] n % 3 = 2 -> <<>>
            [] OTHER -> << <<n, 0, n>> >>)
QuestionsOf(f) == IF f.exists THEN QuestionsOfLines(Len(f.lines)) ELSE <<>>

\* C5: for a file of N questions (a missing file has none), the k-th
\* get_next_question call that returns gives {index: k-1, text: k-th
\* question} for k <= N and the end marker for every k > N.
C5_QuestionsInFileOrderThenEnd ==
    LET qs == QuestionsOf(file)
    IN \A k \in 1..Len(served) :
          served[k] = IF k <= Len(qs)
                      THEN [tag |-> "question", index |-> k - 1, q |-> qs[k], s |-> None]
                      ELSE [tag |-> "end", index |-> -1, q |-> <<>>, s |-> EndMessage]

C5_Witness ==
    /\ Len(QuestionsOf(file)) = 2
    /\ Len(served) = 3
    /\ served[2].tag = "question" /\ served[3].tag = "end"

\* C6: the process-wide question index is always between 0 and the number
\* of questions of the file, and no step decreases it.
C6_IndexBoundedAndMonotone ==
    /\ [](/\ conversation_state.current_index >= 0
          /\ conversation_state.current_index <= Len(QuestionsOf(file)))
    /\ [][conversation_state'.current_index >= conversation_state.current_index]_vars

C6_Witness ==
    /\ Len(QuestionsOf(file)) = 2
    /\ conversation_state.current_index = 2
    /\ \A c \in Conns : recvd[c] >= 1
    /\ last.op = "receive" /\ last.called = "get_next_question"
    /\ Len(last.replies) = 1 /\ last.replies[1].payload.tag = "end"

IsFunctionCall(f) == f.json = "object" /\ f.type = "function_call"
NamesKnownFunction(f) ==
    IsFunctionCall(f) /\ f.name \in {"appRAG", "store_user_response", "get_next_question"}

\* the arguments of a call of a known function are not JSON, not a JSON
\* object, or do not satisfy the schema of the function
Rejected(f) ==
    /\ NamesKnownFunction(f)
    /\ \/ f.arguments.kind # "dict"
       \/ /\ f.name = "appRAG"
          /\ (f.arguments.search_query.t # "str" \/ f.arguments.search_query.len > 200)
       \/ /\ f.name = "store_user_response"
          /\ (f.arguments.text.t # "str" \/ f.arguments.text.len > 1000)

\* C7: a function_call frame for a known function whose arguments do not
\* parse or do not satisfy the schema is answered with one error reply that
\* carries its call_id; no function is called, the conversation state and the
\* answer lists are unchanged, and the connection stays open.
C7_RejectedArgumentsAnswered ==
    [][\A c \in Conns :
          (recvd'[c] = recvd[c] + 1 /\ Rejected(last'.frame)) =>
              /\ Len(last'.replies) = 1
              /\ last'.replies[1].status = "error"
              /\ last'.replies[1].call_id = last'.frame.call_id
              /\ sent'[c] = sent[c] + 1
              /\ last'.called = None
              /\ conversation_state' = conversation_state
              /\ user_response' = user_response
              /\ ws'[c] = "open"]_vars

C7_Witness ==
    /\ last.op = "receive"
    /\ Rejected(last.frame)
    /\ last.frame.name = "store_user_response"
    /\ last.frame.arguments.text.len = 1001
    /\ Len(conversation_state.responses) = 1
    /\ ws[last.conn] = "open"

\* the name of the call is a string (or null) outside the known set
NamesUnknownFunction(f) ==
    /\ IsFunctionCall(f)
    /\ f.name \notin {"appRAG", "store_user_response", "get_next_question"}
    /\ f.name # Unhashable
HasUnknownType(f) ==
    f.json = "object" /\ f.type \notin {"function_call", "next_question", "user_response"}

C9_MalformedFrameAnswered ==
    (last.op = "receive" /\ last.frame.json = "malformed") =>
        /\ Len(last.replies) = 1
        /\ ws[last.conn] = "open"

\* C10: every function_call frame is answered with exactly one reply, which
\* carries the call_id of the frame and the status success or error, and the
\* loop goes on.
C10_OneReplyPerFunctionCall ==
    (last.op = "receive" /\ IsFunctionCall(last.frame)) =>
        /\ Len(last.replies) = 1
        /\ last.replies[1].call_id = last.frame.call_id
        /\ last.replies[1].status \in {"success", "error"}
        /\ ws[last.conn] = "open"

\* a frame of the question traffic is handled as usual: a call is answered
\* with its call_id, next_question with a question or the end marker, a
\* user_response is recorded without a reply
HandledAsUsual(c) ==
    /\ ws'[c] = "open"
    /\ IsFunctionCall(last'.frame) =>
          /\ Len(last'.replies) = 1
          /\ last'.replies[1].call_id = last'.frame.call_id
          /\ sent'[c] = sent[c] + 1
    /\ last'.frame.type = "next_question" =>
          /\ Len(last'.replies) = 1
          /\ last'.replies[1].type \in {"question", "end"}
          /\ sent'[c] = sent[c] + 1
    /\ last'.frame.type = "user_response" =>
          /\ Len(user_response') = Len(user_response) + 1
          /\ sent'[c] = sent[c]

\* C11: when the client of one connection goes away, only the loop of that
\* connection ends, and nothing is logged at error level; the conversation
\* state and the answer lists keep their values; the other connections keep
\* their state, and a frame received on another connection afterwards is
\* handled as usual.
C11_DisconnectEndsOnlyItsChannel ==
    [][\A c \in Conns :
          /\ (ws[c] = "open" /\ ws'[c] = "ended" /\ recvd'[c] = recvd[c]) =>
                /\ \A i \in 1..Len(last'.log) : last'.log[i].level # "error"
                /\ conversation_state' = conversation_state
                /\ user_response' = user_response
                /\ \A d \in Conns \ {c} :
                      /\ ws'[d] = ws[d]
                      /\ questions'[d] = questions[d]
                      /\ current_index'[d] = current_index[d]
          /\ (/\ recvd'[c] = recvd[c] + 1
              /\ \E d \in Conns \ {c} : ws[d] = "ended") => HandledAsUsual(c)]_vars

C11_Witness ==
    \E c \in Conns, d \in Conns :
        /\ c # d
        /\ ws[d] = "ended" /\ recvd[d] >= 1
        /\ Len(conversation_state.responses) >= 1
        /\ last.op = "receive" /\ last.conn = c
        /\ Len(last.replies) = 1
        /\ ws[c] = "open"

\* the questions that get_next_question calls have handed out so far
RECURSIVE HandedOut(_)
HandedOut(k) ==
    IF k = 0 THEN 0
    ELSE HandedOut(k - 1) + (IF served[k].tag = "question" THEN 1 ELSE 0)
\* a store_user_response call has just returned on connection c
Stored(c) ==
    /\ recvd'[c] = recvd[c] + 1
    /\ last'.called = "store_user_response"
    /\ last'.replies[1].status = "success"

\* C12 (as claimed): a store_user_response call that returns appends one
\* entry {index, text} to the answer log and returns {stored, question_index},
\* both indexes being the index of the question served last; so a question
\* has been served.
C12_StoredAtLastServedIndex ==
    [][\A c \in Conns :
          Stored(c) =>
              LET n == HandedOut(Len(served))
              IN /\ n >= 1
                 /\ conversation_state'.responses =
                       Append(conversation_state.responses,
                              [index |-> n - 1, text |-> last'.frame.arguments.text])
                 /\ last'.replies[1].payload = Payload("stored", n - 1, <<>>, None)]_vars

\* C12 (amended): a store_user_response call that returns appends one entry
\* {index, text} to the answer log and returns {stored, question_index}, both
\* indexes being the index of the question that get_next_question handed out
\* last, or 0 when it has handed out none; questions sent in reply to
\* next_question frames do not count, and the question index is unchanged.
C12_StoredAtLastHandedOutIndexOrZero ==
    [][\A c \in Conns :
          Stored(c) =>
              LET n == HandedOut(Len(served))
                  idx == IF n >= 1 THEN n - 1 ELSE 0
              IN /\ conversation_state'.responses =
                       Append(conversation_state.responses,
                              [index |-> idx, text |-> last'.frame.arguments.text])
                 /\ last'.replies = <<Success(last'.frame.call_id,
                                              Payload("stored", idx, <<>>, None))>>
                 /\ conversation_state'.current_index = conversation_state.current_index]_vars

C12_Witness ==
    /\ last.op = "receive" /\ last.called = "store_user_response"
    /\ last.replies[1].status = "success"
    /\ last.replies[1].payload.index = 1
    /\ conversation_state.responses = <<[index |-> 1, text |-> last.frame.arguments.text]>>

\* C14: an appRAG call whose search_query is a string of at most 200
\* characters is answered with a success reply whose result is the fixed
\* text, whatever the query is, and leaves the question index and the answer
\* log as they were.
C14_AppRagFixedReply ==
    [][\A c \in Conns :
          (/\ recvd'[c] = recvd[c] + 1
           /\ IsFunctionCall(last'.frame)
           /\ last'.frame.name = "appRAG"
           /\ last'.frame.arguments.kind = "dict"
           /\ last'.frame.arguments.search_query.t = "str"
           /\ last'.frame.arguments.search_query.len <= 200) =>
              /\ last'.replies =
                    <<[status |-> "success", type |-> None, call_id |-> last'.frame.call_id,
                       payload |-> [tag |-> "canned", index |-> -1, q |-> <<>>,
                                    s |-> "open 9 to 22"]]>>
              /\ conversation_state' = conversation_state]_vars

C14_Witness ==
    /\ last.op = "receive" /\ last.called = "appRAG"
    /\ last.frame.arguments.search_query.len = 200
    /\ last.replies[1].status = "success"
    /\ last.replies[1].payload.s = Canned
    /\ Len(conversation_state.responses) = 1

\* C15: a user_response frame appends one entry {index, text} to the
\* process-wide answer log, made of the text of the frame and of the index of
\* the frame or, when the frame has none, the cursor of the connection minus
\* one; and nothing is sent back.
C15_UserResponseLoggedWithIndex ==
    [][\A c \in Conns :
          (/\ recvd'[c] = recvd[c] + 1
           /\ last'.frame.json = "object"
           /\ last'.frame.type = "user_response") =>
              LET f == last'.frame
                  entry == [index |-> IF f.index.given THEN f.index.value
                                      ELSE current_index[c] - 1,
                            text |-> IF f.text.t = "absent" THEN EmptyStr ELSE f.text]
              IN /\ \/ conversation_state'.responses =
                          Append(conversation_state.responses, entry)
                    \/ user_response' = Append(user_response, entry)
                 /\ last'.replies = <<>>
                 /\ sent'[c] = sent[c]]_vars

\* C16: on every connection, the k-th next_question frame of the connection
\* is answered with the one message {type: question, index: k-1, text: k-th
\* question} for k up to the number of questions of the file, and with the
\* end marker after that, whatever else was received on this and on the
\* other connections.
C16_NextQuestionPerConnection ==
    LET qs == QuestionsOf(file)
    IN \A c \in Conns : \A k \in 1..Len(asked[c]) :
          asked[c][k] =
             IF k <= Len(qs)
             THEN <<[status |-> None, type |-> "question", call_id |-> None,
                     payload |-> [tag |-> "question", index |-> k - 1, q |-> qs[k],
                                  s |-> None]]>>
             ELSE <<[status |-> None, type |-> "end", call_id |-> None,
                     payload |-> [tag |-> "end", index |-> -1, q |-> <<>>,
                                  s |-> EndMessage]]>>

C16_Witness ==
    \E c \in Conns, d \in Conns :
        /\ c # d
        /\ recvd[d] = 1 /\ Len(asked[d]) = 0
        /\ conversation_state.current_index = 1
        /\ Len(asked[c]) = 2
        /\ asked[c][1][1].payload.index = 0
        /\ asked[c][2][1].type = "end"

\* C17: the cursor of get_next_question is one for all connections and a
\* call reads and advances it in one step: over all connections together no
\* index is handed out twice and none is left out, the cursor is the number
\* of questions handed out, and a call that returns a question returns the
\* one after the last handed out on whatever connection.
C17_SharedCursorHandsOutEachIndexOnce ==
    LET Q == {k \in 1..Len(served) : served[k].tag = "question"}
    IN /\ \A j \in Q, k \in Q : j # k => served[j].index # served[k].index
       /\ {served[k].index : k \in Q} = 0..(Cardinality(Q) - 1)
       /\ Cardinality(Q) <= Len(QuestionsOf(file))
       /\ conversation_state.current_index = Cardinality(Q)
       /\ (/\ last.op = "receive" /\ last.called = "get_next_question"
           /\ last.replies[1].status = "success"
           /\ last.replies[1].payload.tag = "question") =>
              last.replies[1].payload.index = Cardinality(Q) - 1

C17_Witness ==
    \E c \in Conns, d \in Conns :
        /\ c # d
        /\ recvd[c] = 1 /\ recvd[d] = 1
        /\ Len(served) = 2
        /\ served[1].index = 0 /\ served[2].index = 1
        /\ last.conn = d /\ last.replies[1].payload.index = 1

\* a get_next_question call, or a store_user_response call, has just returned
Succeeded(name) ==
    /\ \E c \in Conns : recvd'[c] = recvd[c] + 1
    /\ last'.called = name
    /\ last'.replies[1].status = "success"

\* C18: a step changes conversation_state only if it is a get_next_question
\* call that returns, which adds 1 to the index and leaves the answer log,
\* or a store_user_response call that returns, which appends one entry and
\* leaves the index; every other step (other calls, rejected calls, frames of
\* every other type, disconnects, steps of negotiation requests) leaves it
\* as it is, and no step removes or alters an entry of the answer log.
C18_OnlyTwoCallsChangeConversationState ==
    [][/\ \/ conversation_state' = conversation_state
          \/ /\ Succeeded("get_next_question")
             /\ conversation_state'.current_index = conversation_state.current_index + 1
             /\ conversation_state'.responses = conversation_state.responses
          \/ /\ Succeeded("store_user_response")
             /\ conversation_state'.current_index = conversation_state.current_index
             /\ Len(conversation_state'.responses) = Len(conversation_state.responses) + 1
       /\ Len(conversation_state'.responses) >= Len(conversation_state.responses)
       /\ \A i \in 1..Len(conversation_state.responses) :
             conversation_state'.responses[i] = conversation_state.responses[i]]_vars

C18_Witness ==
    /\ rpc[1] = "done" /\ resp[1].status = 200
    /\ conversation_state.current_index = 1
    /\ Len(conversation_state.responses) = 1
    /\ \E c \in Conns : ws[c] = "ended" /\ recvd[c] = 2

\* C19: a connection handles one frame at a time.  A message is sent on a
\* connection only in the step that read a frame on it, at most one message
\* for the frame, and it answers that frame (a call is answered with its
\* call_id); so when the next frame is read the answer to the one before has
\* been sent, the answers come in the order of the frames, and the messages
\* sent are never more than the frames received.
C19_OneFrameAtATime ==
    /\ [](\A c \in Conns : sent[c] <= recvd[c])
    /\ [][\A c \in Conns :
            /\ recvd'[c] # recvd[c] =>
                  /\ recvd'[c] = recvd[c] + 1
                  /\ last'.op = "receive" /\ last'.conn = c
                  /\ sent'[c] = sent[c] + Len(last'.replies)
                  /\ Len(last'.replies) <= 1
                  /\ (Len(last'.replies) = 1 /\ IsFunctionCall(last'.frame)) =>
                        last'.replies[1].call_id = last'.frame.call_id
                  /\ \A d \in Conns \ {c} : recvd'[d] = recvd[d] /\ sent'[d] = sent[d]
            /\ recvd'[c] = recvd[c] => sent'[c] = sent[c]]_vars

C19_Witness ==
    \E c \in Conns :
        /\ recvd[c] = 2 /\ sent[c] = 2
        /\ last.op = "receive" /\ last.conn = c
        /\ last.frame.call_id = "id2"
        /\ last.replies[1].call_id = "id2"
====
